---------------------------- MODULE Spec2Model ----------------------------
(***************************************************************************)
(* A model of the geoglyph image scraper: the Web-Mercator projection      *)
(* functions, the tile stitcher (GoogleMapDownloader.generateImage), the   *)
(* negative sampler (generate_negative_coordinates and                     *)
(* download_negative_images), the positive-image batch driver              *)
(* (generate_original_images) and the segmentation-mask generator (main    *)
(* and draw_geometry_on_mask).                                             *)
(*                                                                         *)
(* Floating point values are modelled in fixed point: latitudes and        *)
(* longitudes of the projection in whole degrees, sines and logarithms in  *)
(* units of 1/10000 (the suffix E4), coordinates of the negative sampler   *)
(* in units of 0.001 degree, distances in metres.                          *)
(***************************************************************************)
EXTENDS Integers, Sequences, FiniteSets, TLC

VARIABLES
    active,     \* the generateImage invocations that have been made
    st_args,    \* per invocation: the downloader's fields and the kwargs
    st,         \* per invocation: generateImage's locals and position
    fs,         \* the working directory: per-tile temporary files
    proj,       \* projection harness: inputs and results of the functions
    df,         \* generate_negative_coordinates: the input table
    gen,        \* generate_negative_coordinates: locals and position
    dl,         \* download_negative_images: table, locals, files, position
    orig,       \* generate_original_images: rows, locals, files, position
    mask        \* segmentationMaskGenerator.main: geoms, index, files

vars == <<active, st_args, st, fs, proj, df, gen, dl, orig, mask>>

(***************************************************************************)
(* Bounds of the model.                                                    *)
(***************************************************************************)
MaxTileDim == 3     \* tile_width and tile_height range over 1..MaxTileDim
MaxFaults == 1      \* abnormal fetch outcomes injected per invocation
MaxZoom == 3        \* zoom levels 0..MaxZoom in the projection harness

(***************************************************************************)
(* Program constants.                                                      *)
(***************************************************************************)
TILE_SIZE == 256
ZOOM_LEVEL == 20

Invs == {1, 2}

Lats == {-90, -60, -10, 0, 30, 90}
Lngs == {-180, -67, 0, 90}

(***************************************************************************)
(* Projection.  math.sin at the modelled latitudes, in units of 1/10000;   *)
(* sin(+-90 degrees) is exactly +-1.0 in IEEE double arithmetic.           *)
(***************************************************************************)
SinE4(lat) ==
    CASE lat = -90 -> -10000
      [] lat = -60 -> -8660
      [] lat = -30 -> -5000
      [] lat = -10 -> -1736
      [] lat = 0   -> 0
      [] lat = 10  -> 1736
      [] lat = 30  -> 5000
      [] lat = 60  -> 8660
      [] lat = 90  -> 10000

\* The value of an expression that returned, or the exception it raised.
Val(v) == [ok |-> TRUE, val |-> v, exc |-> "none"]
Raise(e) == [ok |-> FALSE, val |-> <<0, 0>>, exc |-> e]

\* ln((1 + s) / (1 - s)) for s > 0, in units of 1/10000.
LnTable(s) ==
    CASE s = 0    -> 0
      [] s = 1736 -> 3509
      [] s = 5000 -> 10986
      [] s = 8660 -> 26339
      [] s = 9999 -> 99034

\* math.log((1 + siny) / (1 - siny)): the division raises ZeroDivisionError
\* when 1 - siny = 0, and math.log raises ValueError when its argument is 0.
LogRatio(siny) ==
    IF 10000 - siny = 0 THEN Raise("ZeroDivisionError")
    ELSE IF 10000 + siny <= 0 THEN Raise("ValueError")
    ELSE IF siny >= 0 THEN Val(LnTable(siny))
    ELSE Val(-LnTable(-siny))

Pow2(n) == 2 ^ n

\* (0.5 - lg / (4 pi)) * numTiles, floored: lg in units of 1/10000,
\* 4 pi * 10000 = 125664.
MercatorRow(lg, zoom) ==
    LET q == (lg * 10000) \div 125664
    IN  IF zoom >= 4 THEN ((5000 - q) * Pow2(zoom - 4)) \div 625
        ELSE ((5000 - q) * Pow2(zoom)) \div 10000

\* GoogleMapDownloader.getXY: the sine goes to math.log as math.sin returned it.
getXY(lat, lng, zoom) ==
    LET point_x == ((180 + lng) * Pow2(zoom)) \div 360
        sin_y == SinE4(lat)
        lg == LogRatio(sin_y)
    IN  IF lg.ok THEN Val(<<point_x, MercatorRow(lg.val, zoom)>>)
        ELSE Raise(lg.exc)

\* siny = min(max(siny, -0.9999), 0.9999)
ClampSin(s) == IF s > 9999 THEN 9999 ELSE IF s < -9999 THEN -9999 ELSE s

\* latlon_to_world: world coordinates in units of 1/100 pixel.
latlon_to_world(lat, lon) ==
    LET siny == ClampSin(SinE4(lat))
        x == (TILE_SIZE * (180 + lon) * 100) \div 360
        lg == LogRatio(siny)
    IN  IF lg.ok
        THEN Val(<<x, (TILE_SIZE * (5000 - ((lg.val * 10000) \div 125664))) \div 100>>)
        ELSE Raise(lg.exc)

\* latlon_to_pixel_offset: px, py in units of 1/100 pixel.
latlon_to_pixel_offset(lat, lon, lat_center, lon_center, zoom, image_size) ==
    LET scale == Pow2(zoom)
        p == latlon_to_world(lat, lon)
        c == latlon_to_world(lat_center, lon_center)
    IN  IF ~p.ok THEN Raise(p.exc)
        ELSE IF ~c.ok THEN Raise(c.exc)
        ELSE Val(<<(image_size[1] * 100) \div 2 + (p.val[1] - c.val[1]) * scale * 256,
                   (image_size[2] * 100) \div 2 + (p.val[2] - c.val[2]) * scale * 256>>)


(***************************************************************************)
(* The tile stitcher: GoogleMapDownloader.generateImage.                   *)
(***************************************************************************)
Cwds == {1, 2}

\* range(-tile_width//2, tile_width//2): Python parses the lower bound as
\* (-tile_width)//2, a floor division.
RangeLo(n) == (0 - n) \div 2
RangeHi(n) == n \div 2
TileRange(n) == RangeLo(n) .. (RangeHi(n) - 1)

Offs == TileRange(MaxTileDim) \cup TileRange(MaxTileDim - 1)
Names == Offs \X Offs

\* The bytes of a file or a payload: what they decode to and the tile they show.
NoFile == [kind |-> "absent", tile |-> <<0, 0>>, by |-> 0]
Black == [kind |-> "black", tile |-> <<0, 0>>, by |-> 0]
NoResponse == [status |-> 0, body |-> "none"]
NoExc == [type |-> "none", url |-> {}, file |-> {}]

\* Image.new('RGB', (width, height)): the raster as a grid of 256 x 256 cells.
NewImage(tile_width, tile_height) ==
    [size |-> <<TILE_SIZE * tile_width, TILE_SIZE * tile_height>>,
     cells |-> [c \in (0 .. (tile_width - 1)) \X (0 .. (tile_height - 1)) |-> Black]]

\* map_img.paste(im, (px, py)): a tile wholly outside the raster is cropped away.
PasteInto(img, im, pos) ==
    LET c == <<pos[1] \div TILE_SIZE, pos[2] \div TILE_SIZE>>
    IN  IF c \in DOMAIN img.cells
        THEN [img EXCEPT !.cells = [@ EXCEPT ![c] = im]]
        ELSE img

\* (x + tile_width//2) * 256, (y + tile_height//2) * 256
PastePos(x, y, tile_width, tile_height) ==
    <<(x + tile_width \div 2) * TILE_SIZE, (y + tile_height \div 2) * TILE_SIZE>>

StIdle ==
    [pc |-> "init", start |-> <<0, 0>>, xy |-> <<0, 0>>, resp |-> NoResponse,
     im |-> NoFile, log |-> <<>>, pastes |-> <<>>, img |-> NewImage(1, 1),
     exc |-> NoExc, faults |-> 0]

ArgsIdle ==
    [lat |-> 0, lng |-> 0, zoom |-> 0, start_x |-> {}, start_y |-> {},
     tile_width |-> 1, tile_height |-> 1, cwd |-> 1]

Tile(i) == <<st[i].start[1] + st[i].xy[1], st[i].start[2] + st[i].xy[2]>>
CurrentTile(i) == st[i].xy

\* Every invocation resolving its relative file names in one and the same
\* directory, whatever its working directory.
SharedDir(i) == 1

\* open(current_tile, 'wb'), Image.open(current_tile), os.remove(current_tile):
\* the relative name is resolved in the invocation's working directory.
WorkDir(i) == st_args[i].cwd

Fail(i, e) ==
    st' = [st EXCEPT ![i] = [@ EXCEPT !.pc = "raised", !.exc = e]]

\* Lines 77-88: the kwargs, the start tile (getXY when none is given), Image.new.
Call(i) ==
    LET a == st_args[i]
        given == a.start_x # {} /\ a.start_y # {}
        xy == getXY(a.lat, a.lng, a.zoom)
        first == <<RangeLo(a.tile_width), RangeLo(a.tile_height)>>
    IN  /\ i \in active
        /\ st[i].pc = "init"
        /\ IF given
           THEN st' = [st EXCEPT ![i] = [@ EXCEPT
                    !.pc = "get",
                    !.start = <<CHOOSE v \in a.start_x : TRUE, CHOOSE v \in a.start_y : TRUE>>,
                    !.xy = first,
                    !.img = NewImage(a.tile_width, a.tile_height)]]
           ELSE IF xy.ok
           THEN st' = [st EXCEPT ![i] = [@ EXCEPT
                    !.pc = "get", !.start = xy.val, !.xy = first,
                    !.img = NewImage(a.tile_width, a.tile_height)]]
           ELSE Fail(i, [type |-> xy.exc, url |-> {}, file |-> {}])
        /\ UNCHANGED <<active, st_args, fs, proj, df, gen, dl, orig, mask>>

\* What the tile server can answer besides 200 with the tile's image.
AbnormalResponses ==
    {[status |-> 200, body |-> "garbage"], [status |-> 200, body |-> "truncated"],
     [status |-> 404, body |-> "garbage"], [status |-> 404, body |-> "errimg"]}

\* Line 94: requests.get(url, stream=True).  A transport error raises a
\* RequestException whose message quotes the url; any status code returns.
Get(i) ==
    /\ i \in active
    /\ st[i].pc = "get"
    /\ \/ st' = [st EXCEPT ![i] = [@ EXCEPT
                !.pc = "write", !.resp = [status |-> 200, body |-> "tile"],
                !.log = Append(@, [tile |-> Tile(i), status |-> 200, body |-> "tile"])]]
       \/ /\ st[i].faults < MaxFaults
          /\ \E r \in AbnormalResponses :
                st' = [st EXCEPT ![i] = [@ EXCEPT
                    !.pc = "write", !.resp = r, !.faults = @ + 1,
                    !.log = Append(@, [tile |-> Tile(i), status |-> r.status, body |-> r.body])]]
       \/ /\ st[i].faults < MaxFaults
          /\ st' = [st EXCEPT ![i] = [@ EXCEPT
                !.pc = "raised", !.faults = @ + 1,
                !.exc = [type |-> "RequestException", url |-> {Tile(i)}, file |-> {}],
                !.log = Append(@, [tile |-> Tile(i), status |-> 0, body |-> "none"])]]
    /\ UNCHANGED <<active, st_args, fs, proj, df, gen, dl, orig, mask>>

\* Line 95: open(current_tile, 'wb') creates the file, copyfileobj fills it
\* from response.raw; a connection broken mid-body raises out of the with
\* block and leaves the file with the bytes copied so far.
Write(i) ==
    LET cwd == WorkDir(i)
    IN  /\ i \in active
        /\ st[i].pc = "write"
        /\ \/ /\ fs' = [fs EXCEPT ![cwd][CurrentTile(i)] =
                            [kind |-> st[i].resp.body, tile |-> Tile(i), by |-> i]]
              /\ st' = [st EXCEPT ![i] = [@ EXCEPT !.pc = "open"]]
           \/ /\ st[i].faults < MaxFaults
              /\ fs' = [fs EXCEPT ![cwd][CurrentTile(i)] =
                            [kind |-> "partial", tile |-> Tile(i), by |-> i]]
              /\ st' = [st EXCEPT ![i] = [@ EXCEPT
                    !.pc = "raised", !.faults = @ + 1,
                    !.exc = [type |-> "ProtocolError", url |-> {}, file |-> {}]]]
        /\ UNCHANGED <<active, st_args, proj, df, gen, dl, orig, mask>>

\* Line 96: Image.open(current_tile) identifies the format from the header.
Open(i) ==
    LET f == fs[WorkDir(i)][CurrentTile(i)]
    IN  /\ i \in active
        /\ st[i].pc = "open"
        /\ IF f.kind = "absent"
           THEN Fail(i, [type |-> "FileNotFoundError", url |-> {}, file |-> {CurrentTile(i)}])
           ELSE IF f.kind \in {"garbage", "partial"}
           THEN Fail(i, [type |-> "UnidentifiedImageError", url |-> {}, file |-> {CurrentTile(i)}])
           ELSE st' = [st EXCEPT ![i] = [@ EXCEPT !.pc = "paste", !.im = f]]
        /\ UNCHANGED <<active, st_args, fs, proj, df, gen, dl, orig, mask>>

\* Line 97: map_img.paste loads the pixel data; truncated data raises OSError.
Paste(i) ==
    LET a == st_args[i]
        pos == PastePos(st[i].xy[1], st[i].xy[2], a.tile_width, a.tile_height)
    IN  /\ i \in active
        /\ st[i].pc = "paste"
        /\ IF st[i].im.kind = "truncated"
           THEN Fail(i, [type |-> "OSError", url |-> {}, file |-> {}])
           ELSE st' = [st EXCEPT ![i] = [@ EXCEPT
                    !.pc = "remove",
                    !.pastes = Append(@, [im |-> st[i].im, pos |-> pos]),
                    !.img = PasteInto(@, st[i].im, pos)]]
        /\ UNCHANGED <<active, st_args, fs, proj, df, gen, dl, orig, mask>>

\* Line 98 and the loop headers of lines 89-90: os.remove(current_tile), then
\* the next y, the next x, or the end of the loops.
Remove(i) ==
    LET a == st_args[i]
        cwd == WorkDir(i)
        x == st[i].xy[1]
        y == st[i].xy[2]
    IN  /\ i \in active
        /\ st[i].pc = "remove"
        /\ IF fs[cwd][CurrentTile(i)].kind = "absent"
           THEN /\ Fail(i, [type |-> "FileNotFoundError", url |-> {}, file |-> {CurrentTile(i)}])
                /\ fs' = fs
           ELSE /\ fs' = [fs EXCEPT ![cwd][CurrentTile(i)] = NoFile]
                /\ st' = [st EXCEPT ![i] = [@ EXCEPT
                        !.pc = IF y + 1 < RangeHi(a.tile_height) \/ x + 1 < RangeHi(a.tile_width)
                               THEN "get" ELSE "return",
                        !.xy = IF y + 1 < RangeHi(a.tile_height) THEN <<x, y + 1>>
                               ELSE IF x + 1 < RangeHi(a.tile_width)
                               THEN <<x + 1, RangeLo(a.tile_height)>>
                               ELSE @]]
        /\ UNCHANGED <<active, st_args, proj, df, gen, dl, orig, mask>>

\* Lines 99-100: print the size, return map_img.
Return(i) ==
    /\ i \in active
    /\ st[i].pc = "return"
    /\ st' = [st EXCEPT ![i] = [@ EXCEPT !.pc = "returned"]]
    /\ UNCHANGED <<active, st_args, fs, proj, df, gen, dl, orig, mask>>


\* The components that a specification leaves out stay as constructed.
ProjIdle == [pc |-> "idle"]
DfIdle == <<>>
GenIdle == [pc |-> "idle"]
DlIdle == [pc |-> "idle"]
OrigIdle == [pc |-> "idle"]
MaskIdle == [pc |-> "idle"]

StitchLats == {-90, 0, 90}
StitchStarts == {{}, {5}}

StitchArgs ==
    {[lat |-> la, lng |-> 0, zoom |-> 2, start_x |-> s, start_y |-> s,
      tile_width |-> w, tile_height |-> h, cwd |-> 1] :
        la \in StitchLats, s \in StitchStarts,
        w \in 1 .. MaxTileDim, h \in 1 .. MaxTileDim}

InitStitch ==
    /\ active = {1}
    /\ \E a \in StitchArgs :
          /\ (a.start_x # {} => a.lat = 0)
          /\ st_args = [i \in Invs |-> IF i = 1 THEN a ELSE ArgsIdle]
    /\ st = [i \in Invs |-> StIdle]
    /\ fs = [c \in Cwds |-> [n \in Names |-> NoFile]]
    /\ proj = ProjIdle
    /\ df = DfIdle
    /\ gen = GenIdle
    /\ dl = DlIdle
    /\ orig = OrigIdle
    /\ mask = MaskIdle

NextStitch ==
    \E i \in Invs :
        \/ Call(i)
        \/ Get(i)
        \/ Write(i)
        \/ Open(i)
        \/ Paste(i)
        \/ Remove(i)
        \/ Return(i)

SpecStitch == InitStitch /\ [][NextStitch]_vars

(***************************************************************************)
(* Two invocations of generateImage running at the same time, in one       *)
(* working directory or in two, the tile server answering every request    *)
(* with the tile.  The steps of the two interleave statement by statement. *)
(***************************************************************************)
MaxConcDim == 2     \* tile_width and tile_height of the two invocations

ConcStarts == [i \in Invs |-> IF i = 1 THEN 5 ELSE 9]

ConcArgs(i) ==
    {[lat |-> 0, lng |-> 0, zoom |-> 4, start_x |-> {ConcStarts[i]},
      start_y |-> {ConcStarts[i]}, tile_width |-> w, tile_height |-> h, cwd |-> c] :
        w \in 1 .. MaxConcDim, h \in 1 .. MaxConcDim, c \in Cwds}

InitConc ==
    /\ active = Invs
    /\ st_args \in {f \in [Invs -> UNION {ConcArgs(i) : i \in Invs}] :
                        /\ \A i \in Invs : f[i] \in ConcArgs(i)
                        /\ f[1].cwd = 1}
    /\ st = [i \in Invs |-> [StIdle EXCEPT !.faults = MaxFaults]]
    /\ fs = [c \in Cwds |-> [n \in Names |-> NoFile]]
    /\ proj = ProjIdle
    /\ df = DfIdle
    /\ gen = GenIdle
    /\ dl = DlIdle
    /\ orig = OrigIdle
    /\ mask = MaskIdle

NextConc == \E i \in Invs : Call(i) \/ Get(i) \/ Write(i) \/ Open(i) \/ Paste(i) \/ Remove(i) \/ Return(i)

SpecConc == InitConc /\ [][NextConc]_vars

(***************************************************************************)
(* The projection functions, applied to inputs drawn from bounded sets.    *)
(***************************************************************************)
NotCalled == [ok |-> FALSE, val |-> <<0, 0>>, exc |-> "not called"]

CenterLats == {0, 90}
ImageSizes == {<<256, 256>>, <<2048, 2048>>}

InitProj ==
    /\ active = {}
    /\ st_args = [i \in Invs |-> ArgsIdle]
    /\ st = [i \in Invs |-> StIdle]
    /\ fs = [c \in Cwds |-> [n \in Names |-> NoFile]]
    /\ \E la \in Lats, lo \in Lngs, lc \in CenterLats, z \in 0 .. MaxZoom, sz \in ImageSizes :
          proj = [pc |-> "ready", lat |-> la, lon |-> lo, lat_center |-> lc,
                  lon_center |-> 0, zoom |-> z, image_size |-> sz,
                  tile |-> NotCalled, pixel |-> NotCalled]
    /\ df = DfIdle
    /\ gen = GenIdle
    /\ dl = DlIdle
    /\ orig = OrigIdle
    /\ mask = MaskIdle

\* GoogleMapDownloader(lat, lon, zoom).getXY()
ProjGetXY ==
    /\ proj.pc = "ready"
    /\ proj.tile = NotCalled
    /\ proj' = [proj EXCEPT !.tile = getXY(proj.lat, proj.lon, proj.zoom)]
    /\ UNCHANGED <<active, st_args, st, fs, df, gen, dl, orig, mask>>

\* latlon_to_pixel_offset(lat, lon, lat_center, lon_center, zoom, image_size)
ProjPixelOffset ==
    /\ proj.pc = "ready"
    /\ proj.pixel = NotCalled
    /\ proj' = [proj EXCEPT !.pixel =
            latlon_to_pixel_offset(proj.lat, proj.lon, proj.lat_center,
                                   proj.lon_center, proj.zoom, proj.image_size)]
    /\ UNCHANGED <<active, st_args, st, fs, df, gen, dl, orig, mask>>

NextProj == ProjGetXY \/ ProjPixelOffset

SpecProj == InitProj /\ [][NextProj]_vars

(***************************************************************************)
(* The negative sampler: generate_negative_coordinates.  Latitudes and     *)
(* longitudes are in units of 0.001 degree, distances in metres.           *)
(***************************************************************************)
OFFSET_RANGE == 3
NUM_OFFSETS_PER_SITE == 1
DISTANCE_THRESHOLD == 1

SiteSpread == 1     \* the second site lies 0..SiteSpread units from the first
MaxTries == 2       \* rejected draws counted per candidate

RECURSIVE IsqrtIter(_, _, _)
IsqrtIter(n, lo, hi) ==
    IF lo >= hi THEN lo
    ELSE LET mid == (lo + hi + 1) \div 2
         IN  IF mid * mid <= n THEN IsqrtIter(n, mid, hi) ELSE IsqrtIter(n, lo, mid - 1)

\* math.sqrt, floored
Isqrt(n) == IsqrtIter(n, 0, 40000)

\* math.cos(math.radians(lat)) in units of 1/1000, by the Taylor series.
CosE3(lat) ==
    LET x4 == (lat * 17453) \div 100000
        t == (x4 * x4) \div 10000
        c4 == 10000 - t \div 2 + (t * t) \div 240000 - (((t * t) \div 10000) * t) \div 7200000
    IN  (c4 + 5) \div 10

\* haversine_distance, in metres: for the differences of a few 0.001 degree
\* that occur, sin(d/2) = d/2 and asin(sqrt(a)) = sqrt(a) to nine digits, and
\* earthR * pi / 180 is 111.195 m per 0.001 degree.
haversine_distance(lat1, lon1, lat2, lon2) ==
    LET dlat == lat2 - lat1
        dlon == lon2 - lon1
        a == dlat * dlat * 1000000 + CosE3(lat1) * CosE3(lat2) * dlon * dlon
    IN  (Isqrt(a) * 111195) \div 1000000

\* DISTANCE_THRESHOLD * 111, in metres
MinDistance == DISTANCE_THRESHOLD * 111

\* list(zip(df["lat"], df["lon"]))
ExistingPoints(table) == {<<table[n].lat, table[n].lon>> : n \in DOMAIN table}

TooCloseToAll(lat_offset, lon_offset, existing_points) ==
    \A e \in existing_points :
        haversine_distance(lat_offset, lon_offset, e[1], e[2]) < MinDistance

\* too_close = any(haversine_distance(...) < DISTANCE_THRESHOLD * 111 for ...)
TooClose(lat_offset, lon_offset, existing_points) ==
    \E e \in existing_points :
        haversine_distance(lat_offset, lon_offset, e[1], e[2]) < MinDistance

SiteA == [lat |-> -10000, lon |-> -67000, code |-> "a"]
SiteB(a, b) == [lat |-> -10000 + a, lon |-> -67000 + b, code |-> "b"]

Tables ==
    {<<>>, <<SiteA>>}
    \cup {<<SiteA, SiteB(a, b)>> : a \in 0 .. SiteSpread, b \in 0 .. SiteSpread}
    \cup {<<SiteB(a, b), SiteA>> : a \in 0 .. SiteSpread, b \in 0 .. SiteSpread}

InitNeg ==
    /\ active = {}
    /\ st_args = [i \in Invs |-> ArgsIdle]
    /\ st = [i \in Invs |-> StIdle]
    /\ fs = [c \in Cwds |-> [n \in Names |-> NoFile]]
    /\ proj = ProjIdle
    /\ df \in Tables
    /\ gen = [pc |-> "init", indx |-> 1, i |-> 0, negatives |-> <<>>,
              tries |-> 0, csv |-> <<>>]
    /\ dl = DlIdle
    /\ orig = OrigIdle
    /\ mask = MaskIdle

\* Lines 40-43: negatives = [], existing_points, the first row if there is one.
GenStart ==
    /\ gen.pc = "init"
    /\ gen' = [gen EXCEPT !.pc = IF Len(df) = 0 THEN "save" ELSE "run"]
    /\ UNCHANGED <<active, st_args, st, fs, proj, df, dl, orig, mask>>

\* A candidate drawn from a window twice as wide in latitude.
CandidateWide(row, u, v) ==
    [orig_code |-> row.code, lat |-> row.lat + 2 * u, lon |-> row.lon + v]

\* Lines 49-50 and 60: lat_offset = lat + u, lon_offset = lon + v, and the
\* record {"orig_code": code, "lat": lat_offset, "lon": lon_offset}.
Candidate(row, u, v) ==
    [orig_code |-> row.code, lat |-> row.lat + u, lon |-> row.lon + v]

\* Lines 48-61: one pass of the while True loop, with the loop headers of lines
\* 43 and 47 when the draw is accepted.
GenDraw ==
    /\ gen.pc = "run"
    /\ \E u \in -OFFSET_RANGE .. OFFSET_RANGE, v \in -OFFSET_RANGE .. OFFSET_RANGE :
          LET row == df[gen.indx]
              cand == Candidate(row, u, v)
              lat_offset == cand.lat
              lon_offset == cand.lon
              lastOfRow == gen.i + 1 >= NUM_OFFSETS_PER_SITE
              lastRow == gen.indx >= Len(df)
          IN  IF ~TooClose(lat_offset, lon_offset, ExistingPoints(df))
              THEN gen' = [gen EXCEPT
                      !.negatives = Append(@, cand),
                      !.tries = 0,
                      !.i = IF lastOfRow THEN 0 ELSE @ + 1,
                      !.indx = IF lastOfRow /\ ~lastRow THEN @ + 1 ELSE @,
                      !.pc = IF lastOfRow /\ lastRow THEN "save" ELSE "run"]
              ELSE gen' = [gen EXCEPT
                      !.tries = IF @ < MaxTries THEN @ + 1 ELSE @]
    /\ UNCHANGED <<active, st_args, st, fs, proj, df, dl, orig, mask>>

\* Lines 63-66: the table of negatives is written to OUTPUT_CSV and returned.
GenSave ==
    /\ gen.pc = "save"
    /\ gen' = [gen EXCEPT !.pc = "done", !.csv = gen.negatives]
    /\ UNCHANGED <<active, st_args, st, fs, proj, df, dl, orig, mask>>

NextNeg == GenStart \/ GenDraw \/ GenSave

SpecNeg == InitNeg /\ [][NextNeg]_vars

(***************************************************************************)
(* The batch drivers.  A driver sees of generateImage only how it ends:    *)
(* with the image, or with the exception one of its steps raised.          *)
(***************************************************************************)
MaxRows == 2        \* rows of a driver's table
MaxImages == 2      \* max_images ranges over 0..MaxImages

\* The exceptions of generateImage's steps that derive from IOError (OSError):
\* requests' RequestException and PIL's UnidentifiedImageError do, urllib3's
\* ProtocolError (raised while response.raw is read) and the arithmetic errors
\* of getXY do not.
IsIOError(e) ==
    e \in {"RequestException", "UnidentifiedImageError", "OSError", "FileNotFoundError"}

\* How gmd.generateImage() with no kwargs can end for a downloader at lat, lon
\* (in units of 0.001 degree) and ZOOM_LEVEL.
GenerateImageOutcomes(lat, lon) ==
    LET xy == getXY(lat \div 1000, lon \div 1000, ZOOM_LEVEL)
    IN  IF ~xy.ok THEN {xy.exc}
        ELSE {"image", "RequestException", "ProtocolError",
              "UnidentifiedImageError", "OSError"}

\* negativeGenerator.py imports pandas, random, math, os, cv2, numpy and the
\* downloader: the name gc is bound by no import.
GcImported == FALSE

\* gc.collect() in the finally block
GcCollect == IF GcImported THEN "none" ELSE "NameError"

CapReachedStrict(count, max_images) == count > max_images

\* if count >= max_images
CapReached(count, max_images) == count >= max_images

DriverLats == {-10000, 90000}
DriverCodes == {"a", "b"}

RECURSIVE SeqsUpTo(_, _)
SeqsUpTo(S, n) ==
    IF n = 0 THEN {<<>>}
    ELSE LET shorter == SeqsUpTo(S, n - 1)
         IN  shorter \cup {Append(q, e) : q \in shorter, e \in S}

NegRows == {[orig_code |-> c, lat |-> la, lon |-> -67000] : c \in DriverCodes, la \in DriverLats}
SiteRows == {[code |-> c, lat |-> la, lon |-> -67000] : c \in DriverCodes, la \in DriverLats}

DlInit(rows, max_images) ==
    [pc |-> "init", rows |-> rows, max_images |-> max_images, k |-> 1, count |-> 0,
     downloads |-> <<>>, saves |-> <<>>, low |-> {}, skipped |-> {},
     stopped |-> FALSE, exc |-> "none"]

\* Lines 69-70: os.makedirs, count = 0.
DlStart ==
    /\ dl.pc = "init"
    /\ dl' = [dl EXCEPT !.pc = "run"]
    /\ UNCHANGED <<active, st_args, st, fs, proj, df, gen, orig, mask>>

\* negative_{orig_code}_{lat:.3f}_{lon:.3f}.png
NegativeName(row) == <<row.orig_code, row.lat, row.lon>>

\* Lines 72-103: one pass of the loop over the candidates.
DlStep ==
    /\ dl.pc = "run"
    /\ IF dl.k > Len(dl.rows)
       THEN dl' = [dl EXCEPT !.pc = "done"]
       ELSE IF CapReached(dl.count, dl.max_images)
       THEN dl' = [dl EXCEPT !.pc = "done", !.stopped = TRUE]
       ELSE LET row == dl.rows[dl.k]
            IN  \E o \in GenerateImageOutcomes(row.lat, row.lon) :
                   IF o # "image"
                   THEN dl' = [dl EXCEPT !.downloads = Append(@, dl.k),
                                        !.skipped = @ \cup {dl.k},
                                        !.k = @ + 1]
                   ELSE \E low_texture \in BOOLEAN :
                        LET saved == IF low_texture THEN dl.saves
                                     ELSE Append(dl.saves, [k |-> dl.k, name |-> NegativeName(row)])
                            lows == IF low_texture THEN dl.low \cup {dl.k} ELSE dl.low
                        IN  IF GcCollect # "none"
                            THEN dl' = [dl EXCEPT !.downloads = Append(@, dl.k),
                                                !.saves = saved, !.low = lows,
                                                !.pc = "aborted", !.exc = GcCollect]
                            ELSE dl' = [dl EXCEPT !.downloads = Append(@, dl.k),
                                                !.saves = saved, !.low = lows,
                                                !.count = IF low_texture THEN @ ELSE @ + 1,
                                                !.k = @ + 1]
    /\ UNCHANGED <<active, st_args, st, fs, proj, df, gen, orig, mask>>

OrigInit(rows) ==
    [pc |-> "init", rows |-> rows, k |-> 1, saves |-> <<>>, failed |-> {}, exc |-> "none"]

\* generate_original_images is called with the rows of one form.
OrigStart ==
    /\ orig.pc = "init"
    /\ orig' = [orig EXCEPT !.pc = "run"]
    /\ UNCHANGED <<active, st_args, st, fs, proj, df, gen, dl, mask>>

\* Lines 110-125: one pass of the loop; except IOError catches the exceptions
\* that derive from it, any other ends the function.
OrigStep ==
    /\ orig.pc = "run"
    /\ IF orig.k > Len(orig.rows)
       THEN orig' = [orig EXCEPT !.pc = "done"]
       ELSE LET row == orig.rows[orig.k]
            IN  \E o \in GenerateImageOutcomes(row.lat, row.lon) :
                   IF o = "image"
                   THEN orig' = [orig EXCEPT
                            !.saves = Append(@, [k |-> orig.k, name |-> row.code]),
                            !.k = @ + 1]
                   ELSE IF IsIOError(o)
                   THEN orig' = [orig EXCEPT !.failed = @ \cup {orig.k}, !.k = @ + 1]
                   ELSE orig' = [orig EXCEPT !.pc = "aborted", !.exc = o]
    /\ UNCHANGED <<active, st_args, st, fs, proj, df, gen, dl, mask>>

(***************************************************************************)
(* The mask generator: draw_geometry_on_mask and main.                     *)
(***************************************************************************)
LINE_PADDING_PX == 3

SupportedKinds == {"Point", "LineString", "Polygon"}
GeometryKinds == SupportedKinds \cup {"MultiPolygon"}

\* Lines 101-119: the stroke of a LineString, the filled exterior of a Polygon,
\* the disc of a Point (its centre in 1/100 pixel, its radius pad_px * 3).
DrawShape(geom, center_lat, center_lon, size, zoom, pad_px) ==
    IF geom.kind = "LineString"
    THEN [ok |-> TRUE, shape |-> "line", at |-> <<0, 0>>, extent |-> pad_px * 2,
          exc |-> "none", names |-> "none"]
    ELSE IF geom.kind = "Polygon"
    THEN [ok |-> TRUE, shape |-> "polygon", at |-> <<0, 0>>, extent |-> 0,
          exc |-> "none", names |-> "none"]
    ELSE LET p == latlon_to_pixel_offset(geom.lat, geom.lon, center_lat, center_lon, zoom, size)
         IN  IF p.ok
             THEN [ok |-> TRUE, shape |-> "ellipse", at |-> p.val, extent |-> pad_px * 3,
                   exc |-> "none", names |-> "none"]
             ELSE [ok |-> FALSE, shape |-> "none", at |-> <<0, 0>>, extent |-> 0,
                   exc |-> p.exc, names |-> "none"]

\* A draw_geometry_on_mask without its else branch: the mask comes back blank.
draw_geometry_no_else(geom, center_lat, center_lon, size, zoom, pad_px) ==
    IF geom.kind \in SupportedKinds
    THEN DrawShape(geom, center_lat, center_lon, size, zoom, pad_px)
    ELSE [ok |-> TRUE, shape |-> "none", at |-> <<0, 0>>, extent |-> 0,
          exc |-> "none", names |-> "none"]

\* draw_geometry_on_mask: what is drawn into the mask, or for any other kind
\* the ValueError raised, whose message quotes type(geom).
draw_geometry_on_mask(geom, center_lat, center_lon, size, zoom, pad_px) ==
    IF geom.kind \in SupportedKinds
    THEN DrawShape(geom, center_lat, center_lon, size, zoom, pad_px)
    ELSE [ok |-> FALSE, shape |-> "none", at |-> <<0, 0>>, extent |-> 0,
          exc |-> "ValueError", names |-> geom.kind]

\* name.split("#")[-1] if "#" in name else name: names are sequences of tokens.
RECURSIVE AfterLastHash(_)
AfterLastHash(name) ==
    IF \E n \in DOMAIN name : name[n] = "#"
    THEN LET n == CHOOSE m \in DOMAIN name : name[m] = "#"
         IN  AfterLastHash(SubSeq(name, n + 1, Len(name)))
    ELSE name

GidOf(name) == AfterLastHash(name)

PlacemarkNames == {<<"g", "#", "1">>, <<"1">>, <<"g", "#", "2">>}
Gids == {GidOf(n) : n \in PlacemarkNames}
MaskLats == {-10, 90}

\* load_kml_geometries appends (name, Point(lon, lat)) and nothing else.
LoadedGeoms == {[name |-> n, kind |-> "Point", lat |-> la, lon |-> -67] :
                    n \in PlacemarkNames, la \in MaskLats}

\* Geometries of every kind, for the callers of draw_geometry_on_mask.
AnyGeoms == {[name |-> n, kind |-> k, lat |-> -10, lon |-> -67] :
                    n \in PlacemarkNames, k \in GeometryKinds}

\* build_image_index: per id no image, a readable image, or a file that
\* Image.open cannot read.
ImageIndexes == [Gids -> {"none", "ok", "corrupt"}]

MaskInit(geoms, index) ==
    [pc |-> "init", geoms |-> geoms, index |-> index, k |-> 1, masks |-> <<>>,
     missing |-> <<>>, drawn |-> <<>>, exc |-> "none", names |-> "none"]

\* Lines 127-130: the geometries are loaded and the images indexed.
MaskStart ==
    /\ mask.pc = "init"
    /\ mask' = [mask EXCEPT !.pc = "run"]
    /\ UNCHANGED <<active, st_args, st, fs, proj, df, gen, dl, orig>>

\* Lines 132-156: one pass of the loop over the geometries.
MaskStep ==
    /\ mask.pc = "run"
    /\ IF mask.k > Len(mask.geoms)
       THEN mask' = [mask EXCEPT !.pc = "done"]
       ELSE LET geom == mask.geoms[mask.k]
                gid == GidOf(geom.name)
                img == mask.index[gid]
                d == draw_geometry_on_mask(geom, geom.lat, geom.lon, <<2048, 2048>>,
                                           ZOOM_LEVEL, LINE_PADDING_PX)
            IN  IF img = "none"
                THEN mask' = [mask EXCEPT !.missing = Append(@, mask.k), !.k = @ + 1]
                ELSE IF img = "corrupt"
                THEN mask' = [mask EXCEPT !.pc = "aborted", !.exc = "UnidentifiedImageError"]
                ELSE IF ~d.ok
                THEN mask' = [mask EXCEPT !.pc = "aborted", !.exc = d.exc, !.names = d.names]
                ELSE mask' = [mask EXCEPT
                        !.drawn = Append(@, [k |-> mask.k, shape |-> d.shape]),
                        !.masks = Append(@, [k |-> mask.k, gid |-> gid]),
                        !.k = @ + 1]
    /\ UNCHANGED <<active, st_args, st, fs, proj, df, gen, dl, orig>>

InitMask ==
    /\ active = {}
    /\ st_args = [i \in Invs |-> ArgsIdle]
    /\ st = [i \in Invs |-> StIdle]
    /\ fs = [c \in Cwds |-> [n \in Names |-> NoFile]]
    /\ proj = ProjIdle
    /\ df = DfIdle
    /\ gen = GenIdle
    /\ dl = DlIdle
    /\ orig = OrigIdle
    /\ \E geoms \in SeqsUpTo(AnyGeoms, MaxRows), index \in ImageIndexes :
          mask = MaskInit(geoms, index)

NextMask == MaskStart \/ MaskStep

SpecMask == InitMask /\ [][NextMask]_vars

\* One of the three batch drivers runs, on a table drawn from a bounded set.
InitDrivers ==
    /\ active = {}
    /\ st_args = [i \in Invs |-> ArgsIdle]
    /\ st = [i \in Invs |-> StIdle]
    /\ fs = [c \in Cwds |-> [n \in Names |-> NoFile]]
    /\ proj = ProjIdle
    /\ df = DfIdle
    /\ gen = GenIdle
    /\ \/ /\ \E rows \in SeqsUpTo(NegRows, MaxRows), m \in 0 .. MaxImages :
                dl = DlInit(rows, m)
          /\ orig = OrigIdle
          /\ mask = MaskIdle
       \/ /\ dl = DlIdle
          /\ \E rows \in SeqsUpTo(SiteRows, MaxRows) : orig = OrigInit(rows)
          /\ mask = MaskIdle
       \/ /\ dl = DlIdle
          /\ orig = OrigIdle
          /\ \E geoms \in SeqsUpTo(LoadedGeoms, MaxRows), index \in ImageIndexes :
                mask = MaskInit(geoms, index)

NextDrivers == DlStart \/ DlStep \/ OrigStart \/ OrigStep \/ MaskStart \/ MaskStep

SpecDrivers == InitDrivers /\ [][NextDrivers]_vars

(***************************************************************************)
(* The claims.                                                             *)
(***************************************************************************)
Finished(i) == i \in active /\ st[i].pc \in {"returned", "raised"}

\* The offsets i with -h <= i < h and their paste pixels (i + h) * 256, for
\* h = h2 / 2: the tiles requested, each once, and the pastes made.
ContractHolds(i, h2w, h2h) ==
    LET a == st_args[i]
        is == {k \in -MaxTileDim .. MaxTileDim : -h2w <= 2 * k /\ 2 * k < h2w}
        js == {k \in -MaxTileDim .. MaxTileDim : -h2h <= 2 * k /\ 2 * k < h2h}
        sx == st[i].start[1]
        sy == st[i].start[2]
    IN  /\ {st[i].log[n].tile : n \in DOMAIN st[i].log} = {<<sx + x, sy + y>> : x \in is, y \in js}
        /\ Len(st[i].log) = Cardinality(is) * Cardinality(js)
        /\ {<<st[i].pastes[n].im.tile, st[i].pastes[n].pos>> : n \in DOMAIN st[i].pastes}
             = {<<<<sx + x, sy + y>>, <<(2 * x + h2w) * (TILE_SIZE \div 2), (2 * y + h2h) * (TILE_SIZE \div 2)>>>> :
                    x \in is, y \in js}
        /\ Len(st[i].pastes) = Cardinality(is) * Cardinality(js)
        /\ st[i].img.size = <<TILE_SIZE * a.tile_width, TILE_SIZE * a.tile_height>>

\* C1: an image returned by generateImage was stitched from exactly the tiles
\* (centerX+i, centerY+j), (i, j) in [-tileWidth/2, tileWidth/2) x
\* [-tileHeight/2, tileHeight/2), each pasted at ((i+tileWidth/2)*256,
\* (j+tileHeight/2)*256), into a raster of 256*tileWidth by 256*tileHeight.
\* The half tileWidth/2 is read as the integer quotient or as the exact half:
\* the claim is taken to hold if it holds under either reading.
C1_StitchContract ==
    \A i \in Invs :
        (i \in active /\ st[i].pc = "returned") =>
            \E h2w \in {st_args[i].tile_width, 2 * (st_args[i].tile_width \div 2)},
               h2h \in {st_args[i].tile_height, 2 * (st_args[i].tile_height \div 2)} :
                ContractHolds(i, h2w, h2h)

\* The contract on even tile counts, where both readings of the half agree.
C1_EvenContract ==
    \A i \in Invs :
        (i \in active /\ st[i].pc = "returned"
            /\ st_args[i].tile_width % 2 = 0 /\ st_args[i].tile_height % 2 = 0) =>
            ContractHolds(i, st_args[i].tile_width, st_args[i].tile_height)

C1_EvenReturned ==
    \E i \in active :
        st[i].pc = "returned" /\ st_args[i].tile_width = 2 /\ st_args[i].tile_height = 2

\* A fetch that failed: a transport error, a status outside 2xx, or a payload
\* that does not decode.
FailedFetch(e) ==
    e.status < 200 \/ e.status > 299 \/ e.body \in {"garbage", "truncated"}

\* C2: when the fetch of any tile failed (transport error, non-2xx response,
\* undecodable payload), generateImage ends by raising and returns no image.
\* (The claim adds that the error identifies the failed tile coordinate.)
C2_FailedFetchFailsStitch ==
    \A i \in Invs :
        (Finished(i) /\ \E n \in DOMAIN st[i].log : FailedFetch(st[i].log[n])) =>
            st[i].pc = "raised"

\* C3: when generateImage has ended, by returning or by raising, no temporary
\* per-tile file that the invocation created still exists.
C3_NoTempFileLeft ==
    \A i \in Invs :
        Finished(i) =>
            \A c \in Cwds, n \in Names : fs[c][n].by # i

\* C10: at a latitude of exactly 90 or -90 degrees neither projection function
\* raises a domain or division error: getXY and latlon_to_pixel_offset both
\* return a value.
C10_PolesReturnValue ==
    (proj.pc = "ready" /\ proj.lat \in {-90, 90}) =>
        /\ (proj.tile # NotCalled => proj.tile.ok)
        /\ (proj.pixel # NotCalled => proj.pixel.ok)

\* The half of C10 about latlon_to_pixel_offset, whose sine is clamped.
C10_PixelOffsetReturnsValue ==
    (proj.pc = "ready" /\ proj.pixel # NotCalled) => proj.pixel.ok

\* C4: every candidate recorded by generate_negative_coordinates lies at a
\* haversine distance of at least DISTANCE_THRESHOLD * 111 from every point of
\* the input table, its own origin site and all the other sites.
C4_NegativesFarFromAllSites ==
    gen.pc # "idle" =>
        \A n \in DOMAIN gen.negatives, s \in DOMAIN df :
            haversine_distance(gen.negatives[n].lat, gen.negatives[n].lon,
                               df[s].lat, df[s].lon) >= MinDistance

\* Two distinct sites, a candidate recorded for each, and the first candidate
\* drawn on the side of its origin where the other site lies.
C4_TwoSitesSampled ==
    /\ gen.pc = "done"
    /\ Len(df) = 2
    /\ <<df[1].lat, df[1].lon>> # <<df[2].lat, df[2].lon>>
    /\ Len(gen.negatives) = 2
    /\ gen.negatives[1].lat = df[2].lat
    /\ gen.negatives[1].lon = df[2].lon + 2

\* C5: the rejection loop has a maximum number of attempts: once the draws
\* rejected for a candidate reach the ceiling, generate_negative_coordinates
\* has stopped with a CandidateExhaustedError.
C5_AttemptsBounded ==
    (gen.pc # "idle" /\ gen.tries >= MaxTries) => gen.pc = "exhausted"

\* C6: in download_negative_images a candidate judged low-texture is
\* discarded: no image file is written for it, it is not counted, no
\* replacement is generated, and the loop goes on to the next candidate.
C6_LowTextureDiscarded ==
    dl.pc \notin {"idle", "init"} =>
        \A k \in dl.low :
            /\ \A n \in DOMAIN dl.saves : dl.saves[n].k # k
            /\ dl.count <= Len(dl.saves)
            /\ ~(dl.pc = "aborted" /\ dl.k = k)

\* C7: the number of saved negative images never exceeds max_images, and once
\* it has reached max_images no further candidate is downloaded or saved.
C7_CapRespected ==
    /\ [](dl.pc \notin {"idle", "init"} => Len(dl.saves) <= dl.max_images)
    /\ [][(dl.pc \notin {"idle", "init"} /\ Len(dl.saves) >= dl.max_images) =>
            (dl'.downloads = dl.downloads /\ dl'.saves = dl.saves)]_vars

\* The cap check has stopped the loop with candidates left in the table.
C7_StoppedAtCap ==
    /\ dl.pc = "done"
    /\ dl.stopped
    /\ dl.k <= Len(dl.rows)
    /\ Len(dl.saves) = dl.max_images

\* C8: in every batch driver a failure at one item is caught at that item and
\* skipped: the run does not abort, and the items after it are processed.
C8_NoDriverAborts ==
    /\ dl.pc # "aborted"
    /\ orig.pc # "aborted"
    /\ mask.pc # "aborted"

Abs(n) == IF n < 0 THEN 0 - n ELSE n

\* The site row that the n-th recorded candidate belongs to, in site order.
SiteOf(n) == df[(n - 1) \div NUM_OFFSETS_PER_SITE + 1]

\* C12: on return generate_negative_coordinates has recorded exactly
\* NUM_OFFSETS_PER_SITE candidates per input row, in the order of the rows, each
\* with the orig_code of its site and a latitude and a longitude within
\* OFFSET_RANGE of the site's; and every step of the loop leaves the recorded
\* list as it was or appends one accepted candidate to it, so a rejected draw
\* changes nothing in it.
C12_CandidatesPerSiteInOrder ==
    /\ [](gen.pc = "done" =>
            /\ Len(gen.negatives) = NUM_OFFSETS_PER_SITE * Len(df)
            /\ gen.csv = gen.negatives
            /\ \A n \in DOMAIN gen.negatives :
                  /\ gen.negatives[n].orig_code = SiteOf(n).code
                  /\ Abs(gen.negatives[n].lat - SiteOf(n).lat) <= OFFSET_RANGE
                  /\ Abs(gen.negatives[n].lon - SiteOf(n).lon) <= OFFSET_RANGE)
    /\ [][gen.pc = "run" =>
            \/ gen'.negatives = gen.negatives
            \/ /\ Len(gen'.negatives) = Len(gen.negatives) + 1
               /\ SubSeq(gen'.negatives, 1, Len(gen.negatives)) = gen.negatives
               /\ LET c == gen'.negatives[Len(gen'.negatives)]
                  IN  ~TooClose(c.lat, c.lon, ExistingPoints(df))]_vars

\* The function has returned for two sites at different places, given in the
\* order b, a: one candidate for each, the first at a corner of b's window.
C12_TwoSitesRecorded ==
    /\ gen.pc = "done"
    /\ Len(df) = 2
    /\ df[1].code = "b"
    /\ <<df[1].lat, df[1].lon>> # <<df[2].lat, df[2].lon>>
    /\ Len(gen.csv) = 2
    /\ gen.csv[1].orig_code = "b"
    /\ gen.csv[1].lat = df[1].lat + OFFSET_RANGE
    /\ gen.csv[1].lon = df[1].lon - OFFSET_RANGE
    /\ gen.csv[2].orig_code = "a"

\* C13: for every positive tile_width and tile_height, odd ones included, the
\* pastes of a generateImage that returned tile the raster exactly: every paste
\* offset lies in [0, 256 * tile_width) x [0, 256 * tile_height), there are
\* tile_width * tile_height pastes, no two at the same offset, and no
\* 256 x 256 cell of the returned raster is left unfilled.
C13_PastesTileRaster ==
    \A i \in Invs :
        (i \in active /\ st[i].pc = "returned") =>
            LET a == st_args[i]
                ps == st[i].pastes
            IN  /\ \A n \in DOMAIN ps :
                      /\ 0 <= ps[n].pos[1] /\ ps[n].pos[1] < TILE_SIZE * a.tile_width
                      /\ 0 <= ps[n].pos[2] /\ ps[n].pos[2] < TILE_SIZE * a.tile_height
                /\ Len(ps) = a.tile_width * a.tile_height
                /\ \A n, m \in DOMAIN ps : ps[n].pos = ps[m].pos => n = m
                /\ \A c \in DOMAIN st[i].img.cells : st[i].img.cells[c] # Black

\* An invocation pasted bytes that another invocation wrote.
PastedForeignBytes(i) ==
    \E n \in DOMAIN st[i].pastes : st[i].pastes[n].im.by # i

\* An invocation failed because its temporary file was gone.
LostItsFile(i) ==
    st[i].pc = "raised" /\ st[i].exc.type = "FileNotFoundError"

\* C11: two generateImage invocations running at the same time collide on the
\* temporary file 'x-y' only when they share the working directory: whenever
\* an invocation has pasted bytes written by another, or has failed because
\* its file had been removed, another invocation runs in the same directory
\* and has a relative offset in common with it.  (That such a state is
\* reached in a shared directory is C11_BothCollisions.)
C11_CollisionNeedsSharedNamespace ==
    \A i \in active :
        (PastedForeignBytes(i) \/ LostItsFile(i)) =>
            \E j \in active \ {i} :
                /\ st_args[j].cwd = st_args[i].cwd
                /\ TileRange(st_args[i].tile_width) \cap TileRange(st_args[j].tile_width) # {}
                /\ TileRange(st_args[i].tile_height) \cap TileRange(st_args[j].tile_height) # {}

\* In one working directory, the first invocation has pasted the tile that the
\* second wrote, and the second has failed on the file the first removed.
C11_BothCollisions ==
    /\ active = Invs
    /\ st_args[1].cwd = st_args[2].cwd
    /\ \E n \in DOMAIN st[1].pastes :
          /\ st[1].pastes[n].im.by = 2
          /\ st[1].pastes[n].im.tile[1] >= ConcStarts[2] - MaxConcDim
    /\ LostItsFile(2)

=============================================================================
